---- MODULE Spec2Model ----
(***************************************************************************)
(* Model of app_tareas.py: the weekly team planner (Streamlit).            *)
(*                                                                         *)
(* Every browser session owns a private st.session_state holding its own   *)
(* copies of the four collections, loaded once by initialize_data() from   *)
(* the four JSON files; every mutating handler changes the session's copy  *)
(* and then rewrites the whole file with save_data().  The files are the   *)
(* only state shared between sessions.                                     *)
(***************************************************************************)
EXTENDS Integers, Sequences, FiniteSets, TLC

\* ------------------------------------------------------------------ bounds

\* The browser sessions that may be open at the same time, and the one
\* session of the specifications that follow a single user at work.
Sessions == {"s1", "s2"}
OneSession == {"s1"}

\* Tasks added to weekly plans in one behaviour (uuid4() values of AddTask).
MaxTasks == 2

\* Tasks published to the pool in one behaviour (uuid4() values of Publish).
MaxPublish == 1

\* Tasks published in one behaviour of the specification in which the admin
\* keeps publishing from a session that is open for long.
MaxRepublish == 2

\* Times the wall clock moves on to the next instant of Instants.
MaxTick == 1

\* save_data() calls that raise in one behaviour.
MaxFail == 1

\* Keys one votes dictionary may hold (overwriting a key is always allowed).
MaxVotes == 2

\* ------------------------------------------------------- program constants

USERS_FILE == "app_data/users.json"
WEEKLY_ENTRIES_FILE == "app_data/weekly_entries.json"
UNASSIGNED_TASKS_FILE == "app_data/unassigned_tasks.json"
VOTES_FILE == "app_data/votes.json"
FileNames == {USERS_FILE, WEEKLY_ENTRIES_FILE, UNASSIGNED_TASKS_FILE, VOTES_FILE}

\* The statuses in order, each without the coloured mark that ends it.
TASK_STATUSES == <<"Pendiente", "En Progreso", "Bloqueada", "Completada">>
DEFAULT_INITIAL_PASSWORD == "changeme"

\* Python's None, the uuid no task has, and the score of a missing vote
\* (votes.get(vote_key) is None).
None == "<None>"
NoId == 0
NoVote == 0

\* The seed roster of initialize_data (two of its six collaborators).
collaborator_names == [nico |-> "Nicolas Chavez", tomic |-> "Tomas Casanova"]
Collaborators == DOMAIN collaborator_names
Users == {"admin"} \cup Collaborators

\* ------------------------------------------------------------------ inputs

\* What is typed into the login form: the users and a name nobody has.
UsernameInputs == Users \cup {"ghost"}
\* What is typed into the password field of the login form, and into the
\* two fields of the password setup form.
PasswordInputs == {"abc", DEFAULT_INITIAL_PASSWORD, "secret1"}
NewPasswordInputs == {"", "abc", "secret1"}
\* What is typed as a task title, and as a description.
TitleInputs == {"", "Fix leak"}
DescInputs == {""}
\* What the edit form is submitted with when its text was changed.
EditTitleInputs == {"", "Fix crash"}
EditDescInputs == {"soon"}
\* What the hours number_input (min_value=0, max_value=100) can hold.
HoursInputs == {8}
\* The wall-clock instants datetime.now() returns, in order.
Instants == << [y |-> 2024, m |-> 12, d |-> 27],
               [y |-> 2024, m |-> 12, d |-> 30],
               [y |-> 2025, m |-> 1, d |-> 2] >>

\* ----------------------------------------------------------------- helpers

\* A Python dict is a function; d[k] = v on it.
Put(d, k, v) == [x \in (DOMAIN d) \cup {k} |-> IF x = k THEN v ELSE d[x]]
\* dict.get(k, default)
Get(d, k, default) == IF k \in DOMAIN d THEN d[k] ELSE default
\* list.pop(i) / del list[i]
RemoveAt(seq, i) == [j \in 1..(Len(seq) - 1) |-> IF j < i THEN seq[j] ELSE seq[j + 1]]
\* [t['id'] for t in tasks]
Ids(tasks) == {tasks[i].id : i \in 1..Len(tasks)}

\* ------------------------------------------------------------------- files

Absent == [st |-> "absent"]
Corrupt == [st |-> "corrupt"]
Stored(data) == [st |-> "ok", data |-> data]

VARIABLES
    files,                          \* file name -> Absent, Corrupt or Stored(data)
    initialized,                    \* session -> 'initialized' in st.session_state
    users_db,                       \* session -> username -> user record
    weekly_entries,                 \* session -> entry key -> [hours, tasks]
    unassigned_tasks,               \* session -> sequence of pool tasks
    votes,                          \* session -> vote key -> score
    logged_in_user,                 \* session -> username or None
    user_role,                      \* session -> role or None
    user_full_name,                 \* session -> display name or None
    editing_task_id,                \* session -> task id or NoId
    force_password_reset_for_user,  \* session -> username or None
    clock,                          \* index of the current instant in Instants
    next_uuid,                      \* the next uuid4() value
    failures,                       \* save_data() calls that raised so far
    lastOp,                         \* history: the handler that ran last
    claimedBy,                      \* history: task id -> users whose claim of it went through
    retracted                       \* history: task ids an admin deleted from the pool

session_vars == <<initialized, users_db, weekly_entries, unassigned_tasks, votes,
                  logged_in_user, user_role, user_full_name, editing_task_id,
                  force_password_reset_for_user>>
auth_vars == <<logged_in_user, user_role, user_full_name, force_password_reset_for_user>>
history_vars == <<claimedBy, retracted>>
vars == <<files, session_vars, clock, next_uuid, failures, lastOp, history_vars>>

\* save_data(filepath, data): the file holds the dump of data.
save_data(fs, filepath, data) == [fs EXCEPT ![filepath] = Stored(data)]

\* load_data(filepath, default_data_factory): the stored data, or the default
\* when the file is missing or does not decode.
load_data(filepath, default) ==
    IF files[filepath].st = "ok" THEN files[filepath].data ELSE default

\* ------------------------------------------------------------- credentials

\* generate_password_hash: an opaque value that verifies exactly its plaintext.
hash_password(password) == <<"hash", password>>
NoHash == <<>>

\* (mutant) every password verifies.
check_passwordAlways(hashed_password, password) == TRUE

check_password(hashed_password, password) ==
    IF hashed_password = NoHash THEN FALSE
    ELSE hashed_password = hash_password(password)

\* ------------------------------------------------------- week identifier

IsLeap(y) == (y % 4 = 0 /\ y % 100 # 0) \/ y % 400 = 0
DaysInYear(y) == IF IsLeap(y) THEN 366 ELSE 365
MonthDays(y) == <<31, IF IsLeap(y) THEN 29 ELSE 28, 31, 30, 31, 30, 31, 31, 30, 31, 30, 31>>

RECURSIVE DaysBeforeMonth(_, _)
DaysBeforeMonth(y, m) == IF m = 1 THEN 0 ELSE DaysBeforeMonth(y, m - 1) + MonthDays(y)[m - 1]

\* tm_yday: 1 for January 1st.
DayOfYear(t) == DaysBeforeMonth(t.y, t.m) + t.d

\* Days from Monday 2024-01-01 to January 1st of year y (y >= 2024).
RECURSIVE DaysBeforeYear(_)
DaysBeforeYear(y) == IF y <= 2024 THEN 0 ELSE DaysBeforeYear(y - 1) + DaysInYear(y - 1)

\* isoweekday(): 1 = Monday .. 7 = Sunday.
Weekday(t) == ((DaysBeforeYear(t.y) + DayOfYear(t) - 1) % 7) + 1

\* A year has 53 ISO weeks when it starts on a Thursday, or is a leap year
\* starting on a Wednesday.
WeeksInYear(y) ==
    LET jan1 == Weekday([y |-> y, m |-> 1, d |-> 1])
    IN  IF jan1 = 4 \/ (jan1 = 3 /\ IsLeap(y)) THEN 53 ELSE 52

\* strftime("%V"): the ISO 8601 week number.
IsoWeek(t) ==
    LET w == (DayOfYear(t) - Weekday(t) + 10) \div 7
    IN  IF w < 1 THEN WeeksInYear(t.y - 1)
        ELSE IF w > WeeksInYear(t.y) THEN 1
        ELSE w

\* strftime("%G"): the ISO 8601 week-numbering year.
IsoYear(t) ==
    LET w == (DayOfYear(t) - Weekday(t) + 10) \div 7
    IN  IF w < 1 THEN t.y - 1
        ELSE IF w > WeeksInYear(t.y) THEN t.y + 1
        ELSE t.y

Pad2(n) == IF n < 10 THEN "0" \o ToString(n) ELSE ToString(n)

\* strftime("%Y-%V"): the calendar year and the ISO week number.
FormatWeekYear(t) == ToString(t.y) \o "-" \o Pad2(IsoWeek(t))

\* The identifier of every instant of the model's clock.
WeekOfInstant == [i \in 1..Len(Instants) |-> FormatWeekYear(Instants[i])]
Weeks == {WeekOfInstant[i] : i \in 1..Len(Instants)}

\* get_current_week_year(): datetime.now().strftime("%Y-%V")
get_current_week_year == WeekOfInstant[clock]

\* ------------------------------------------------------------------- keys

\* (mutant) the key leaves the week out.
EntryKeyUserOnly(user, week) == user

\* entry_key = f"{user}_{current_week}"
EntryKey(user, week) == user \o "_" \o week

\* vote_key = f"{logged_in_user}_{current_week}_{user}"
VoteKey(voter, week, target) == voter \o "_" \o week \o "_" \o target

\* ---------------------------------------------------------- initialisation

\* The users initialize_data creates when users_db is empty.
DefaultUsers ==
    [u \in Users |->
        IF u = "admin"
        THEN [password |-> hash_password(DEFAULT_INITIAL_PASSWORD), role |-> "admin",
              full_name |-> "Administrador", password_set |-> FALSE]
        ELSE [password |-> hash_password(DEFAULT_INITIAL_PASSWORD), role |-> "collaborator",
              full_name |-> collaborator_names[u], password_set |-> FALSE]]

\* lastOp: a handler that rejects what was typed, or is ended by an
\* exception, leaves its name and session; a vote leaves whether its key
\* already held a score, a logout whether a task was in edit mode, a claim
\* of a task the entry already holds the task's id, an edit mode cleared
\* because its task is missing its name; every other handler leaves Quiet.
Op(name, s, a, b) == [op |-> name, s |-> s, a |-> a, b |-> b]
Quiet == Op("-", None, None, None)

\* initialize_data(): the first script run of a session loads the four
\* collections; an empty users_db is seeded and saved.  (The migration branch
\* changes nothing here: every stored user record has password_set and
\* full_name.)
Initialize(s) ==
    /\ ~initialized[s]
    /\ LET loaded == load_data(USERS_FILE, <<>>)
           seeded == loaded = <<>>
       IN  /\ users_db' = [users_db EXCEPT ![s] = IF seeded THEN DefaultUsers ELSE loaded]
           /\ files' = IF seeded THEN save_data(files, USERS_FILE, DefaultUsers) ELSE files
    /\ weekly_entries' = [weekly_entries EXCEPT ![s] = load_data(WEEKLY_ENTRIES_FILE, <<>>)]
    /\ unassigned_tasks' = [unassigned_tasks EXCEPT ![s] = load_data(UNASSIGNED_TASKS_FILE, <<>>)]
    /\ votes' = [votes EXCEPT ![s] = load_data(VOTES_FILE, <<>>)]
    /\ logged_in_user' = [logged_in_user EXCEPT ![s] = None]
    /\ user_role' = [user_role EXCEPT ![s] = None]
    /\ user_full_name' = [user_full_name EXCEPT ![s] = None]
    /\ editing_task_id' = [editing_task_id EXCEPT ![s] = NoId]
    /\ force_password_reset_for_user' = [force_password_reset_for_user EXCEPT ![s] = None]
    /\ initialized' = [initialized EXCEPT ![s] = TRUE]
    /\ lastOp' = Quiet
    /\ UNCHANGED <<clock, next_uuid, failures, history_vars>>

\* The browser tab is closed: its st.session_state is dropped.
CloseSession(s) ==
    /\ initialized[s]
    /\ initialized' = [initialized EXCEPT ![s] = FALSE]
    /\ users_db' = [users_db EXCEPT ![s] = <<>>]
    /\ weekly_entries' = [weekly_entries EXCEPT ![s] = <<>>]
    /\ unassigned_tasks' = [unassigned_tasks EXCEPT ![s] = <<>>]
    /\ votes' = [votes EXCEPT ![s] = <<>>]
    /\ logged_in_user' = [logged_in_user EXCEPT ![s] = None]
    /\ user_role' = [user_role EXCEPT ![s] = None]
    /\ user_full_name' = [user_full_name EXCEPT ![s] = None]
    /\ editing_task_id' = [editing_task_id EXCEPT ![s] = NoId]
    /\ force_password_reset_for_user' = [force_password_reset_for_user EXCEPT ![s] = None]
    /\ lastOp' = Quiet
    /\ UNCHANGED <<files, clock, next_uuid, failures, history_vars>>

\* The wall clock reaches the next instant.
Tick ==
    /\ clock < Len(Instants)
    /\ clock <= MaxTick
    /\ clock' = clock + 1
    /\ lastOp' = Quiet
    /\ UNCHANGED <<files, session_vars, next_uuid, failures, history_vars>>

\* ---------------------------------------------------------- authentication

\* main(): which page a script run of session s shows.
ShowsPasswordSetup(s) == initialized[s] /\ force_password_reset_for_user[s] # None
ShowsLogin(s) ==
    initialized[s] /\ force_password_reset_for_user[s] = None /\ logged_in_user[s] = None
ShowsApp(s) ==
    initialized[s] /\ force_password_reset_for_user[s] = None /\ logged_in_user[s] # None

\* (mutant) a verified login is granted a session whatever password_set says.
LoginSkipsSetup(s, username, password) ==
    /\ ShowsLogin(s)
    /\ LET known == username \in DOMAIN users_db[s]
           ok == known /\ check_password(users_db[s][username].password, password)
       IN  /\ IF ok
              THEN /\ logged_in_user' = [logged_in_user EXCEPT ![s] = username]
                   /\ user_role' = [user_role EXCEPT ![s] = users_db[s][username].role]
                   /\ user_full_name' =
                          [user_full_name EXCEPT ![s] = users_db[s][username].full_name]
                   /\ UNCHANGED force_password_reset_for_user
              ELSE UNCHANGED auth_vars
           /\ lastOp' = IF ok THEN Quiet ELSE Op("login", s, None, FALSE)
    /\ UNCHANGED <<files, initialized, users_db, weekly_entries, unassigned_tasks, votes,
                   editing_task_id, clock, next_uuid, failures, history_vars>>

\* login_page(): the "Ingresar" button with what was typed.
Login(s, username, password) ==
    /\ ShowsLogin(s)
    /\ LET known == username \in DOMAIN users_db[s]
           ok == known /\ check_password(users_db[s][username].password, password)
       IN  /\ IF ok /\ ~users_db[s][username].password_set
              THEN /\ force_password_reset_for_user' =
                          [force_password_reset_for_user EXCEPT ![s] = username]
                   /\ UNCHANGED <<logged_in_user, user_role, user_full_name>>
              ELSE IF ok
              THEN /\ logged_in_user' = [logged_in_user EXCEPT ![s] = username]
                   /\ user_role' = [user_role EXCEPT ![s] = users_db[s][username].role]
                   /\ user_full_name' =
                          [user_full_name EXCEPT ![s] = users_db[s][username].full_name]
                   /\ UNCHANGED force_password_reset_for_user
              ELSE UNCHANGED auth_vars
           /\ lastOp' = IF ok THEN Quiet ELSE Op("login", s, None, FALSE)
    /\ UNCHANGED <<files, initialized, users_db, weekly_entries, unassigned_tasks, votes,
                   editing_task_id, clock, next_uuid, failures, history_vars>>

\* (mutant) the length of the new password is not tested.
SetupPasswordAnyLength(s, new_password, confirm_password) ==
    /\ ShowsPasswordSetup(s)
    /\ LET username == force_password_reset_for_user[s]
           valid == /\ new_password # "" /\ confirm_password # ""
                    /\ new_password = confirm_password
           user_data == [users_db[s][username] EXCEPT
                            !.password = hash_password(new_password),
                            !.password_set = TRUE]
           db == [users_db[s] EXCEPT ![username] = user_data]
       IN  /\ IF valid
              THEN /\ users_db' = [users_db EXCEPT ![s] = db]
                   /\ files' = save_data(files, USERS_FILE, db)
                   /\ logged_in_user' = [logged_in_user EXCEPT ![s] = username]
                   /\ user_role' = [user_role EXCEPT ![s] = user_data.role]
                   /\ user_full_name' = [user_full_name EXCEPT ![s] = user_data.full_name]
                   /\ force_password_reset_for_user' =
                          [force_password_reset_for_user EXCEPT ![s] = None]
              ELSE UNCHANGED <<users_db, files, auth_vars>>
           /\ lastOp' = IF valid THEN Quiet ELSE Op("setup", s, None, FALSE)
    /\ UNCHANGED <<initialized, weekly_entries, unassigned_tasks, votes,
                   editing_task_id, clock, next_uuid, failures, history_vars>>

\* (mutant) a saved password leaves force_password_reset_for_user set.
SetupPasswordKeepsPending(s, new_password, confirm_password) ==
    /\ ShowsPasswordSetup(s)
    /\ LET username == force_password_reset_for_user[s]
           valid == /\ new_password # "" /\ confirm_password # ""
                    /\ new_password = confirm_password
                    /\ Len(new_password) >= 6
           user_data == [users_db[s][username] EXCEPT
                            !.password = hash_password(new_password),
                            !.password_set = TRUE]
           db == [users_db[s] EXCEPT ![username] = user_data]
       IN  /\ IF valid
              THEN /\ users_db' = [users_db EXCEPT ![s] = db]
                   /\ files' = save_data(files, USERS_FILE, db)
                   /\ logged_in_user' = [logged_in_user EXCEPT ![s] = username]
                   /\ user_role' = [user_role EXCEPT ![s] = user_data.role]
                   /\ user_full_name' = [user_full_name EXCEPT ![s] = user_data.full_name]
                   /\ UNCHANGED force_password_reset_for_user
              ELSE UNCHANGED <<users_db, files, auth_vars>>
           /\ lastOp' = IF valid THEN Quiet ELSE Op("setup", s, None, FALSE)
    /\ UNCHANGED <<initialized, weekly_entries, unassigned_tasks, votes,
                   editing_task_id, clock, next_uuid, failures, history_vars>>

\* new_password_setup_page(username): the "Guardar Contraseña" button.
SetupPassword(s, new_password, confirm_password) ==
    /\ ShowsPasswordSetup(s)
    /\ LET username == force_password_reset_for_user[s]
           valid == /\ new_password # "" /\ confirm_password # ""
                    /\ new_password = confirm_password
                    /\ Len(new_password) >= 6
           user_data == [users_db[s][username] EXCEPT
                            !.password = hash_password(new_password),
                            !.password_set = TRUE]
           db == [users_db[s] EXCEPT ![username] = user_data]
       IN  /\ IF valid
              THEN /\ users_db' = [users_db EXCEPT ![s] = db]
                   /\ files' = save_data(files, USERS_FILE, db)
                   /\ logged_in_user' = [logged_in_user EXCEPT ![s] = username]
                   /\ user_role' = [user_role EXCEPT ![s] = user_data.role]
                   /\ user_full_name' = [user_full_name EXCEPT ![s] = user_data.full_name]
                   /\ force_password_reset_for_user' =
                          [force_password_reset_for_user EXCEPT ![s] = None]
              ELSE UNCHANGED <<users_db, files, auth_vars>>
           /\ lastOp' = IF valid THEN Quiet ELSE Op("setup", s, None, FALSE)
    /\ UNCHANGED <<initialized, weekly_entries, unassigned_tasks, votes,
                   editing_task_id, clock, next_uuid, failures, history_vars>>

\* (mutant) the task in edit mode survives the logout.
LogoutKeepsEdit(s) ==
    /\ ShowsApp(s)
    /\ logged_in_user' = [logged_in_user EXCEPT ![s] = None]
    /\ user_role' = [user_role EXCEPT ![s] = None]
    /\ user_full_name' = [user_full_name EXCEPT ![s] = None]
    /\ force_password_reset_for_user' = [force_password_reset_for_user EXCEPT ![s] = None]
    /\ lastOp' = Op("logout", s, None, editing_task_id[s] # NoId)
    /\ UNCHANGED <<files, initialized, users_db, weekly_entries, unassigned_tasks, votes,
                   editing_task_id, clock, next_uuid, failures, history_vars>>

\* logout(): the "Cerrar Sesión" button of the sidebar.
Logout(s) ==
    /\ ShowsApp(s)
    /\ logged_in_user' = [logged_in_user EXCEPT ![s] = None]
    /\ user_role' = [user_role EXCEPT ![s] = None]
    /\ user_full_name' = [user_full_name EXCEPT ![s] = None]
    /\ editing_task_id' = [editing_task_id EXCEPT ![s] = NoId]
    /\ force_password_reset_for_user' = [force_password_reset_for_user EXCEPT ![s] = None]
    /\ lastOp' = Op("logout", s, None, editing_task_id[s] # NoId)
    /\ UNCHANGED <<files, initialized, users_db, weekly_entries, unassigned_tasks, votes,
                   clock, next_uuid, failures, history_vars>>

\* ------------------------------------------------------------ weekly plan

\* weekly_input_page(): entry_key and
\* current_entry = weekly_entries.get(entry_key, {'hours': 0, 'tasks': []})
CurrentKey(s) == EntryKey(logged_in_user[s], get_current_week_year)
EmptyEntry == [hours |-> 0, tasks |-> <<>>]
CurrentEntry(s) == Get(weekly_entries[s], CurrentKey(s), EmptyEntry)

\* The task being edited is in the current entry (task_to_edit_list is not empty).
EditingFound(s) == editing_task_id[s] \in Ids(CurrentEntry(s).tasks)
\* The run reaches the task list and the save button below the forms.
ShowsTaskList(s) == ShowsApp(s) /\ (editing_task_id[s] = NoId \/ EditingFound(s))

\* st.session_state.weekly_entries[entry_key] = current_entry
\* save_data(WEEKLY_ENTRIES_FILE, st.session_state.weekly_entries)
StoreEntry(s, entry) ==
    LET entries == Put(weekly_entries[s], CurrentKey(s), entry)
    IN  /\ weekly_entries' = [weekly_entries EXCEPT ![s] = entries]
        /\ files' = save_data(files, WEEKLY_ENTRIES_FILE, entries)

\* (mutant) the form accepts an empty title.
AddTaskAnyTitle(s, task_title, task_desc) ==
    /\ ShowsApp(s)
    /\ editing_task_id[s] = NoId
    /\ next_uuid <= MaxTasks
    /\ LET new_task == [id |-> next_uuid, title |-> task_title, desc |-> task_desc,
                        status |-> TASK_STATUSES[1]]
       IN  StoreEntry(s, [CurrentEntry(s) EXCEPT !.tasks = Append(@, new_task)])
    /\ next_uuid' = next_uuid + 1
    /\ lastOp' = IF task_title # "" THEN Quiet ELSE Op("add", s, None, FALSE)
    /\ UNCHANGED <<initialized, users_db, unassigned_tasks, votes, auth_vars,
                   editing_task_id, clock, failures, history_vars>>

\* (mutant) the new task is put in front of the entry's tasks.
AddTaskFirst(s, task_title, task_desc) ==
    /\ ShowsApp(s)
    /\ editing_task_id[s] = NoId
    /\ task_title = "" \/ next_uuid <= MaxTasks
    /\ LET new_task == [id |-> next_uuid, title |-> task_title, desc |-> task_desc,
                        status |-> TASK_STATUSES[1]]
           entry == [CurrentEntry(s) EXCEPT !.tasks = <<new_task>> \o @]
       IN  IF task_title # ""
           THEN /\ StoreEntry(s, entry)
                /\ next_uuid' = next_uuid + 1
           ELSE UNCHANGED <<weekly_entries, files, next_uuid>>
    /\ lastOp' = IF task_title # "" THEN Quiet ELSE Op("add", s, None, FALSE)
    /\ UNCHANGED <<initialized, users_db, unassigned_tasks, votes, auth_vars,
                   editing_task_id, clock, failures, history_vars>>

\* The "Añadir Tarea" form, shown while no task is being edited.
AddTask(s, task_title, task_desc) ==
    /\ ShowsApp(s)
    /\ editing_task_id[s] = NoId
    /\ task_title = "" \/ next_uuid <= MaxTasks
    /\ LET new_task == [id |-> next_uuid, title |-> task_title, desc |-> task_desc,
                        status |-> TASK_STATUSES[1]]
           entry == [CurrentEntry(s) EXCEPT !.tasks = Append(@, new_task)]
       IN  IF task_title # ""
           THEN /\ StoreEntry(s, entry)
                /\ next_uuid' = next_uuid + 1
           ELSE UNCHANGED <<weekly_entries, files, next_uuid>>
    /\ lastOp' = IF task_title # "" THEN Quiet ELSE Op("add", s, None, FALSE)
    /\ UNCHANGED <<initialized, users_db, unassigned_tasks, votes, auth_vars,
                   editing_task_id, clock, failures, history_vars>>

\* (mutant) the "Editar" buttons are shown while a task is being edited.
StartEditAnytime(s, i) ==
    /\ ShowsApp(s)
    /\ i \in 1..Len(CurrentEntry(s).tasks)
    /\ editing_task_id' = [editing_task_id EXCEPT ![s] = CurrentEntry(s).tasks[i].id]
    /\ lastOp' = Quiet
    /\ UNCHANGED <<files, initialized, users_db, weekly_entries, unassigned_tasks, votes,
                   auth_vars, clock, next_uuid, failures, history_vars>>

\* The "Editar" button of task i, shown while no task is being edited.
StartEdit(s, i) ==
    /\ ShowsApp(s)
    /\ editing_task_id[s] = NoId
    /\ i \in 1..Len(CurrentEntry(s).tasks)
    /\ editing_task_id' = [editing_task_id EXCEPT ![s] = CurrentEntry(s).tasks[i].id]
    /\ lastOp' = Quiet
    /\ UNCHANGED <<files, initialized, users_db, weekly_entries, unassigned_tasks, votes,
                   auth_vars, clock, next_uuid, failures, history_vars>>

\* The first task of the entry whose id is editing_task_id.
EditIndex(s) ==
    LET tasks == CurrentEntry(s).tasks
    IN  CHOOSE i \in 1..Len(tasks) :
            /\ tasks[i].id = editing_task_id[s]
            /\ \A j \in 1..(i - 1) : tasks[j].id # editing_task_id[s]

\* (mutant) a saved edit puts the task back to the first status.
SaveEditResetsStatus(s, edited_title, edited_desc) ==
    /\ ShowsApp(s)
    /\ editing_task_id[s] # NoId
    /\ EditingFound(s)
    /\ LET i == EditIndex(s)
           entry == [CurrentEntry(s) EXCEPT !.tasks[i].title = edited_title,
                                            !.tasks[i].desc = edited_desc,
                                            !.tasks[i].status = TASK_STATUSES[1]]
       IN  IF edited_title # ""
           THEN /\ StoreEntry(s, entry)
                /\ editing_task_id' = [editing_task_id EXCEPT ![s] = NoId]
           ELSE UNCHANGED <<weekly_entries, files, editing_task_id>>
    /\ lastOp' = IF edited_title # "" THEN Quiet ELSE Op("saveEdit", s, None, FALSE)
    /\ UNCHANGED <<initialized, users_db, unassigned_tasks, votes, auth_vars,
                   clock, next_uuid, failures, history_vars>>

\* The "Guardar Cambios" button of the edit form.
SaveEdit(s, edited_title, edited_desc) ==
    /\ ShowsApp(s)
    /\ editing_task_id[s] # NoId
    /\ EditingFound(s)
    /\ LET i == EditIndex(s)
           entry == [CurrentEntry(s) EXCEPT !.tasks[i].title = edited_title,
                                            !.tasks[i].desc = edited_desc]
       IN  IF edited_title # ""
           THEN /\ StoreEntry(s, entry)
                /\ editing_task_id' = [editing_task_id EXCEPT ![s] = NoId]
           ELSE UNCHANGED <<weekly_entries, files, editing_task_id>>
    /\ lastOp' = IF edited_title # "" THEN Quiet ELSE Op("saveEdit", s, None, FALSE)
    /\ UNCHANGED <<initialized, users_db, unassigned_tasks, votes, auth_vars,
                   clock, next_uuid, failures, history_vars>>

\* The "Cancelar" button of the edit form.
CancelEdit(s) ==
    /\ ShowsApp(s)
    /\ editing_task_id[s] # NoId
    /\ EditingFound(s)
    /\ editing_task_id' = [editing_task_id EXCEPT ![s] = NoId]
    /\ lastOp' = Quiet
    /\ UNCHANGED <<files, initialized, users_db, weekly_entries, unassigned_tasks, votes,
                   auth_vars, clock, next_uuid, failures, history_vars>>

\* The page is rendered while the task being edited is not in the current
\* entry: editing_task_id is cleared and the script reruns.
EditMissing(s) ==
    /\ ShowsApp(s)
    /\ editing_task_id[s] # NoId
    /\ ~EditingFound(s)
    /\ editing_task_id' = [editing_task_id EXCEPT ![s] = NoId]
    /\ lastOp' = Op("editMissing", s, None, FALSE)
    /\ UNCHANGED <<files, initialized, users_db, weekly_entries, unassigned_tasks, votes,
                   auth_vars, clock, next_uuid, failures, history_vars>>

\* The status selectbox of task i is set to another status.
SetStatus(s, i, new_status) ==
    /\ ShowsTaskList(s)
    /\ i \in 1..Len(CurrentEntry(s).tasks)
    /\ new_status # CurrentEntry(s).tasks[i].status
    /\ StoreEntry(s, [CurrentEntry(s) EXCEPT !.tasks[i].status = new_status])
    /\ lastOp' = Quiet
    /\ UNCHANGED <<initialized, users_db, unassigned_tasks, votes, auth_vars,
                   editing_task_id, clock, next_uuid, failures, history_vars>>

\* (mutant) the button removes the last task of the entry, whichever was clicked.
DeleteTaskLast(s, i) ==
    /\ ShowsApp(s)
    /\ editing_task_id[s] = NoId
    /\ i \in 1..Len(CurrentEntry(s).tasks)
    /\ StoreEntry(s, [CurrentEntry(s) EXCEPT !.tasks = RemoveAt(@, Len(@))])
    /\ lastOp' = Quiet
    /\ UNCHANGED <<initialized, users_db, unassigned_tasks, votes, auth_vars,
                   editing_task_id, clock, next_uuid, failures, history_vars>>

\* The "Eliminar" button of task i, shown while no task is being edited.
DeleteTask(s, i) ==
    /\ ShowsApp(s)
    /\ editing_task_id[s] = NoId
    /\ i \in 1..Len(CurrentEntry(s).tasks)
    /\ StoreEntry(s, [CurrentEntry(s) EXCEPT !.tasks = RemoveAt(@, i)])
    /\ lastOp' = Quiet
    /\ UNCHANGED <<initialized, users_db, unassigned_tasks, votes, auth_vars,
                   editing_task_id, clock, next_uuid, failures, history_vars>>

\* The "Guardar Plan Semanal General" button with the hours typed.
SavePlan(s, hours) ==
    /\ ShowsTaskList(s)
    /\ StoreEntry(s, [CurrentEntry(s) EXCEPT !.hours = hours])
    /\ lastOp' = Quiet
    /\ UNCHANGED <<initialized, users_db, unassigned_tasks, votes, auth_vars,
                   editing_task_id, clock, next_uuid, failures, history_vars>>

\* ---------------------------------------------------------- unassigned pool

\* (mutant) the form is shown to every role.
PublishAnyRole(s, task_title, task_desc) ==
    /\ ShowsApp(s)
    /\ task_title = "" \/ next_uuid <= MaxPublish
    /\ LET new_task == [id |-> next_uuid, title |-> task_title, desc |-> task_desc,
                        added_by |-> user_full_name[s],
                        week_added |-> get_current_week_year,
                        status |-> TASK_STATUSES[1]]
           pool == Append(unassigned_tasks[s], new_task)
       IN  IF task_title # ""
           THEN /\ unassigned_tasks' = [unassigned_tasks EXCEPT ![s] = pool]
                /\ files' = save_data(files, UNASSIGNED_TASKS_FILE, pool)
                /\ next_uuid' = next_uuid + 1
           ELSE UNCHANGED <<unassigned_tasks, files, next_uuid>>
    /\ lastOp' = IF task_title # "" THEN Quiet ELSE Op("publish", s, None, FALSE)
    /\ UNCHANGED <<initialized, users_db, weekly_entries, votes, auth_vars,
                   editing_task_id, clock, failures, history_vars>>

\* The "Añadir Tarea Libre" form, shown to the admin role only; limit is the
\* number of uuid4() values the behaviour may draw.
PublishWithin(limit, s, task_title, task_desc) ==
    /\ ShowsApp(s)
    /\ user_role[s] = "admin"
    /\ task_title = "" \/ next_uuid <= limit
    /\ LET new_task == [id |-> next_uuid, title |-> task_title, desc |-> task_desc,
                        added_by |-> user_full_name[s],
                        week_added |-> get_current_week_year,
                        status |-> TASK_STATUSES[1]]
           pool == Append(unassigned_tasks[s], new_task)
       IN  IF task_title # ""
           THEN /\ unassigned_tasks' = [unassigned_tasks EXCEPT ![s] = pool]
                /\ files' = save_data(files, UNASSIGNED_TASKS_FILE, pool)
                /\ next_uuid' = next_uuid + 1
           ELSE UNCHANGED <<unassigned_tasks, files, next_uuid>>
    /\ lastOp' = IF task_title # "" THEN Quiet ELSE Op("publish", s, None, FALSE)
    /\ UNCHANGED <<initialized, users_db, weekly_entries, votes, auth_vars,
                   editing_task_id, clock, failures, history_vars>>

Publish(s, task_title, task_desc) == PublishWithin(MaxPublish, s, task_title, task_desc)

\* (mutant) the copy is appended whatever the entry holds.
EntriesAfterClaimAlways(s, task) ==
    LET entry == CurrentEntry(s)
        taken_task_copy == [task EXCEPT !.status = TASK_STATUSES[1]]
    IN  Put(weekly_entries[s], CurrentKey(s),
            [entry EXCEPT !.tasks = Append(@, taken_task_copy)])

\* What "Tomar esta Tarea" makes of the session's weekly entries: the entry
\* is created when absent, and a copy of the task with status Pendiente is
\* appended unless the entry already holds a task with that id.
EntriesAfterClaim(s, task) ==
    LET entry == CurrentEntry(s)
        taken_task_copy == [task EXCEPT !.status = TASK_STATUSES[1]]
    IN  IF task.id \notin Ids(entry.tasks)
        THEN Put(weekly_entries[s], CurrentKey(s),
                 [entry EXCEPT !.tasks = Append(@, taken_task_copy)])
        ELSE Put(weekly_entries[s], CurrentKey(s), entry)

\* The "Tomar esta Tarea" button of pool task i, shown to the collaborator
\* role only: the copy is saved with the weekly entries, then the task is
\* deleted from the pool and the pool is saved.
Claim(s, i) ==
    /\ ShowsApp(s)
    /\ user_role[s] = "collaborator"
    /\ i \in 1..Len(unassigned_tasks[s])
    /\ LET task == unassigned_tasks[s][i]
           entries == EntriesAfterClaim(s, task)
           appended == task.id \notin Ids(CurrentEntry(s).tasks)
           pool == RemoveAt(unassigned_tasks[s], i)
           saved == IF appended THEN save_data(files, WEEKLY_ENTRIES_FILE, entries) ELSE files
       IN  /\ weekly_entries' = [weekly_entries EXCEPT ![s] = entries]
           /\ unassigned_tasks' = [unassigned_tasks EXCEPT ![s] = pool]
           /\ files' = save_data(saved, UNASSIGNED_TASKS_FILE, pool)
           /\ claimedBy' = Put(claimedBy, task.id,
                               Get(claimedBy, task.id, {}) \cup {logged_in_user[s]})
           /\ lastOp' = IF appended THEN Quiet ELSE Op("claim", s, task.id, TRUE)
    /\ UNCHANGED <<initialized, users_db, votes, auth_vars, editing_task_id,
                   clock, next_uuid, failures, retracted>>

\* save_data() raising: nothing was written, or the file was opened for
\* writing (truncated) and the dump stopped part way.
FailedWrite(fs, filepath, truncated) ==
    IF truncated THEN [fs EXCEPT ![filepath] = Corrupt] ELSE fs

\* "Tomar esta Tarea" when save_data(WEEKLY_ENTRIES_FILE, ...) raises: the
\* copy is already appended in the session, the script run ends before the
\* pool is touched.
ClaimWeeklySaveFails(s, i, truncated) ==
    /\ ShowsApp(s)
    /\ user_role[s] = "collaborator"
    /\ i \in 1..Len(unassigned_tasks[s])
    /\ failures < MaxFail
    /\ LET task == unassigned_tasks[s][i]
       IN  /\ task.id \notin Ids(CurrentEntry(s).tasks)
           /\ weekly_entries' = [weekly_entries EXCEPT ![s] = EntriesAfterClaim(s, task)]
           /\ files' = FailedWrite(files, WEEKLY_ENTRIES_FILE, truncated)
           /\ lastOp' = Op("claim", s, task.id, FALSE)
    /\ failures' = failures + 1
    /\ UNCHANGED <<initialized, users_db, unassigned_tasks, votes, auth_vars,
                   editing_task_id, clock, next_uuid, history_vars>>

\* "Tomar esta Tarea" when save_data(UNASSIGNED_TASKS_FILE, ...) raises: the
\* weekly entries were saved and the task is deleted from the session's pool.
ClaimPoolSaveFails(s, i, truncated) ==
    /\ ShowsApp(s)
    /\ user_role[s] = "collaborator"
    /\ i \in 1..Len(unassigned_tasks[s])
    /\ failures < MaxFail
    /\ LET task == unassigned_tasks[s][i]
           entries == EntriesAfterClaim(s, task)
           appended == task.id \notin Ids(CurrentEntry(s).tasks)
           saved == IF appended THEN save_data(files, WEEKLY_ENTRIES_FILE, entries) ELSE files
       IN  /\ weekly_entries' = [weekly_entries EXCEPT ![s] = entries]
           /\ unassigned_tasks' = [unassigned_tasks EXCEPT ![s] = RemoveAt(@, i)]
           /\ files' = FailedWrite(saved, UNASSIGNED_TASKS_FILE, truncated)
           /\ lastOp' = Op("claim", s, task.id, FALSE)
    /\ failures' = failures + 1
    /\ UNCHANGED <<initialized, users_db, votes, auth_vars, editing_task_id,
                   clock, next_uuid, history_vars>>

\* The "Eliminar Tarea Libre" button of pool task i, shown to the admin role only.
Retract(s, i) ==
    /\ ShowsApp(s)
    /\ user_role[s] = "admin"
    /\ i \in 1..Len(unassigned_tasks[s])
    /\ LET task == unassigned_tasks[s][i]
           pool == RemoveAt(unassigned_tasks[s], i)
       IN  /\ unassigned_tasks' = [unassigned_tasks EXCEPT ![s] = pool]
           /\ files' = save_data(files, UNASSIGNED_TASKS_FILE, pool)
           /\ retracted' = retracted \cup {task.id}
           /\ lastOp' = Quiet
    /\ UNCHANGED <<initialized, users_db, weekly_entries, votes, auth_vars,
                   editing_task_id, clock, next_uuid, failures, claimedBy>>

\* ------------------------------------------------------------------ voting

\* (mutant) the users of users_db, of any role, whose entry of the current
\* week has at least one task.
ActiveUsersAnyRole(s) ==
    {u \in DOMAIN users_db[s] :
        /\ EntryKey(u, get_current_week_year) \in DOMAIN weekly_entries[s]
        /\ weekly_entries[s][EntryKey(u, get_current_week_year)].tasks # <<>>}

\* team_hub_page(): the collaborators of users_db whose entry of the current
\* week has at least one task (active_entries_this_week).
ActiveUsers(s) ==
    {u \in DOMAIN users_db[s] :
        /\ users_db[s][u].role = "collaborator"
        /\ EntryKey(u, get_current_week_year) \in DOMAIN weekly_entries[s]
        /\ weekly_entries[s][EntryKey(u, get_current_week_year)].tasks # <<>>}

\* (mutant) every label scores one more.
vote_optionsPlusOne == [l \in {"*", "**", "***", "****", "*****"} |-> Len(l) + 1]

\* vote_options: the radio's labels (a star written *) and their scores.
vote_options == [l \in {"*", "**", "***", "****", "*****"} |-> Len(l)]

\* (mutant) the vote form is rendered under the user's own entry too.
VoteTargetsWithSelf(s) == ActiveUsers(s)

\* The vote form is rendered under every active entry but the user's own.
VoteTargets(s) == {u \in ActiveUsers(s) : u # logged_in_user[s]}

\* (mutant) a key that already holds a score keeps it.
CastVoteWriteOnce(s, target, selected_vote_label) ==
    /\ ShowsApp(s)
    /\ target \in VoteTargets(s)
    /\ LET vote_key == VoteKey(logged_in_user[s], get_current_week_year, target)
           ballots == IF vote_key \in DOMAIN votes[s] THEN votes[s]
                      ELSE Put(votes[s], vote_key, vote_options[selected_vote_label])
       IN  /\ vote_key \in DOMAIN votes[s] \/ Cardinality(DOMAIN votes[s]) < MaxVotes
           /\ votes' = [votes EXCEPT ![s] = ballots]
           /\ files' = save_data(files, VOTES_FILE, ballots)
           /\ lastOp' = Op("vote", s, None, Get(votes[s], vote_key, NoVote) # NoVote)
    /\ UNCHANGED <<initialized, users_db, weekly_entries, unassigned_tasks, auth_vars,
                   editing_task_id, clock, next_uuid, failures, history_vars>>

\* The "Votar" button under target's entry with the label selected.
CastVote(s, target, selected_vote_label) ==
    /\ ShowsApp(s)
    /\ target \in VoteTargets(s)
    /\ LET vote_key == VoteKey(logged_in_user[s], get_current_week_year, target)
           ballots == Put(votes[s], vote_key, vote_options[selected_vote_label])
       IN  /\ vote_key \in DOMAIN votes[s] \/ Cardinality(DOMAIN votes[s]) < MaxVotes
           /\ votes' = [votes EXCEPT ![s] = ballots]
           /\ files' = save_data(files, VOTES_FILE, ballots)
           /\ lastOp' = Op("vote", s, None, Get(votes[s], vote_key, NoVote) # NoVote)
    /\ UNCHANGED <<initialized, users_db, weekly_entries, unassigned_tasks, auth_vars,
                   editing_task_id, clock, next_uuid, failures, history_vars>>

\* ------------------------------------------------------------ initial state

NoFiles == [f \in FileNames |-> Absent]

\* The weekly entries on disk, and the tasks already published there.
StoredEntries ==
    LET entries == load_data(WEEKLY_ENTRIES_FILE, <<>>)
    IN  {entries[k] : k \in DOMAIN entries}

InitSessions ==
    /\ initialized = [s \in Sessions |-> FALSE]
    /\ users_db = [s \in Sessions |-> <<>>]
    /\ weekly_entries = [s \in Sessions |-> <<>>]
    /\ unassigned_tasks = [s \in Sessions |-> <<>>]
    /\ votes = [s \in Sessions |-> <<>>]
    /\ logged_in_user = [s \in Sessions |-> None]
    /\ user_role = [s \in Sessions |-> None]
    /\ user_full_name = [s \in Sessions |-> None]
    /\ editing_task_id = [s \in Sessions |-> NoId]
    /\ force_password_reset_for_user = [s \in Sessions |-> None]
    /\ clock = 1
    /\ next_uuid = 1 + Cardinality(UNION {Ids(e.tasks) : e \in StoredEntries})
    /\ failures = 0
    /\ lastOp = Quiet
    /\ claimedBy = <<>>
    /\ retracted = {}

\* A fresh installation: no file exists yet.
Init ==
    /\ files = NoFiles
    /\ InitSessions

\* ----------------------------------------- specification: authentication

NextAuth ==
    \/ \E s \in Sessions : Initialize(s)
    \/ \E s \in Sessions : CloseSession(s)
    \/ \E s \in Sessions, u \in UsernameInputs, p \in PasswordInputs : Login(s, u, p)
    \/ \E s \in Sessions, p \in NewPasswordInputs, c \in NewPasswordInputs : SetupPassword(s, p, c)
    \/ \E s \in Sessions : Logout(s)

SpecAuth == Init /\ [][NextAuth]_vars

\* ------------------------------------------------ specification: weekly plan

\* Every seeded user has completed the password setup with this password.
ChosenPassword == "secret1"
SetUpUsers ==
    [u \in Users |-> [DefaultUsers[u] EXCEPT !.password = hash_password(ChosenPassword),
                                             !.password_set = TRUE]]

\* The installation after every user's first login: only users.json exists.
InitSetUp ==
    /\ files = [NoFiles EXCEPT ![USERS_FILE] = Stored(SetUpUsers)]
    /\ InitSessions

\* A login with the right password (the other inputs are SpecAuth's).
LoginAs(s, u) == Login(s, u, ChosenPassword)

\* The users who open the weekly plan.
WeeklyUsers == {"admin", "nico"}

NextWeekly ==
    \/ \E s \in OneSession : Initialize(s)
    \/ \E s \in OneSession : CloseSession(s)
    \/ \E s \in OneSession, u \in WeeklyUsers : LoginAs(s, u)
    \/ \E s \in OneSession : Logout(s)
    \/ \E s \in OneSession, t \in TitleInputs, d \in DescInputs : AddTask(s, t, d)
    \/ \E s \in OneSession, i \in 1..MaxTasks : StartEdit(s, i)
    \/ \E s \in OneSession, t \in TitleInputs, d \in DescInputs : SaveEdit(s, t, d)
    \/ \E s \in OneSession : CancelEdit(s)
    \/ \E s \in OneSession : EditMissing(s)
    \/ \E s \in OneSession, i \in 1..MaxTasks, st \in {TASK_STATUSES[1], TASK_STATUSES[4]} :
            SetStatus(s, i, st)
    \/ \E s \in OneSession, i \in 1..MaxTasks : DeleteTask(s, i)
    \/ \E s \in OneSession, h \in HoursInputs : SavePlan(s, h)
    \/ Tick

SpecWeekly == InitSetUp /\ [][NextWeekly]_vars

\* ------------------------------------------- specification: unassigned pool

NextPool ==
    \/ \E s \in Sessions : Initialize(s)
    \/ \E s \in Sessions : CloseSession(s)
    \/ \E s \in Sessions, u \in Users : LoginAs(s, u)
    \/ \E s \in Sessions : Logout(s)
    \/ \E s \in Sessions, t \in TitleInputs, d \in DescInputs : Publish(s, t, d)
    \/ \E s \in Sessions, i \in 1..MaxPublish : Claim(s, i)
    \/ \E s \in Sessions, i \in 1..MaxPublish : Retract(s, i)

SpecPool == InitSetUp /\ [][NextPool]_vars

\* The pool with save_data() allowed to raise during a claim.
NextPoolFail ==
    \/ NextPool
    \/ \E s \in Sessions, i \in 1..MaxPublish, tr \in BOOLEAN : ClaimWeeklySaveFails(s, i, tr)
    \/ \E s \in Sessions, i \in 1..MaxPublish, tr \in BOOLEAN : ClaimPoolSaveFails(s, i, tr)

SpecPoolFail == InitSetUp /\ [][NextPoolFail]_vars

\* ------------------------------------------ specification: one user's plan

\* One collaborator keeps a plan over the weeks and rewrites the tasks' text.
NextPlan ==
    \/ \E s \in OneSession : Initialize(s)
    \/ \E s \in OneSession : LoginAs(s, "nico")
    \/ \E s \in OneSession : Logout(s)
    \/ \E s \in OneSession, t \in TitleInputs, d \in DescInputs : AddTask(s, t, d)
    \/ \E s \in OneSession, i \in 1..MaxTasks : StartEdit(s, i)
    \/ \E s \in OneSession, t \in EditTitleInputs, d \in EditDescInputs : SaveEdit(s, t, d)
    \/ \E s \in OneSession : CancelEdit(s)
    \/ \E s \in OneSession : EditMissing(s)
    \/ \E s \in OneSession, i \in 1..MaxTasks, st \in {TASK_STATUSES[1], TASK_STATUSES[4]} :
            SetStatus(s, i, st)
    \/ \E s \in OneSession, i \in 1..MaxTasks : DeleteTask(s, i)
    \/ \E s \in OneSession, h \in HoursInputs : SavePlan(s, h)
    \/ Tick

SpecPlan == InitSetUp /\ [][NextPlan]_vars

\* ------------------------------------------- specification: the team plans

\* Two sessions in which the collaborators keep their weekly plans.
NextTeam ==
    \/ \E s \in Sessions : Initialize(s)
    \/ \E s \in Sessions, u \in Collaborators : LoginAs(s, u)
    \/ \E s \in Sessions : Logout(s)
    \/ \E s \in Sessions, t \in TitleInputs, d \in DescInputs : AddTask(s, t, d)
    \/ \E s \in Sessions, i \in 1..MaxTasks : DeleteTask(s, i)
    \/ \E s \in Sessions, h \in HoursInputs : SavePlan(s, h)

SpecTeam == InitSetUp /\ [][NextTeam]_vars

\* --------------------------------- specification: the pool, one desk each

\* Whose browser each session is.
Desk == [s \in Sessions |-> IF s = "s1" THEN "admin" ELSE "nico"]

\* The admin publishes and retracts from one browser, a collaborator claims
\* from another and opens it anew from time to time.
NextRepublish ==
    \/ \E s \in Sessions : Initialize(s)
    \/ \E s \in Sessions : CloseSession(s)
    \/ \E s \in Sessions : LoginAs(s, Desk[s])
    \/ \E s \in Sessions, t \in TitleInputs, d \in DescInputs :
            PublishWithin(MaxRepublish, s, t, d)
    \/ \E s \in Sessions, i \in 1..MaxRepublish : Claim(s, i)
    \/ \E s \in Sessions, i \in 1..MaxRepublish : Retract(s, i)

SpecRepublish == InitSetUp /\ [][NextRepublish]_vars

\* ---------------------------------------------------- specification: voting

\* The installation in the first week of the model's clock, after every
\* user's first login and after every user, the admin too, has added one
\* task to the week's plan.
PlannedEntries ==
    [k \in {EntryKey(u, WeekOfInstant[1]) : u \in Users} |->
        [hours |-> 0,
         tasks |-> << [id |-> IF k = EntryKey("nico", WeekOfInstant[1]) THEN 1
                              ELSE IF k = EntryKey("tomic", WeekOfInstant[1]) THEN 2 ELSE 3,
                       title |-> "Fix leak", desc |-> "", status |-> TASK_STATUSES[1]] >>]]

InitPlanned ==
    /\ files = [NoFiles EXCEPT ![USERS_FILE] = Stored(SetUpUsers),
                               ![WEEKLY_ENTRIES_FILE] = Stored(PlannedEntries)]
    /\ InitSessions

\* The labels of the radio that get selected: the lowest and the highest.
VoteInputs == {"*", "*****"}
\* Who logs in to vote: the admin and one collaborator.
Voters == {"admin", "nico"}

NextVote ==
    \/ \E s \in Sessions : Initialize(s)
    \/ \E s \in Sessions, u \in Voters : LoginAs(s, u)
    \/ \E s \in Sessions : Logout(s)
    \/ \E s \in Sessions, t \in Users, l \in VoteInputs : CastVote(s, t, l)

SpecVote == InitPlanned /\ [][NextVote]_vars

\* =================================================================== claims

\* What one collection holds on disk (the default when missing or corrupt).
PersistedVotes == load_data(VOTES_FILE, <<>>)
PersistedEntries == load_data(WEEKLY_ENTRIES_FILE, <<>>)

\* The (voter, week, target) triples a vote key stands for.
VoteKeyOf(k) == {v \in Users \X Weeks \X Users : VoteKey(v[1], v[2], v[3]) = k}
\* The (username, week) pairs an entry key stands for.
EntryKeyOf(k) == {e \in Users \X Weeks : EntryKey(e[1], e[2]) = k}

\* Every votes collection: each session's and the persisted one.
AllVotes == {votes[s] : s \in Sessions} \cup {PersistedVotes}
\* Every weekly-entries collection: each session's and the persisted one.
AllEntries == {weekly_entries[s] : s \in Sessions} \cup {PersistedEntries}

\* ----------------------------------------------------------------------- C1

C2_NoSelfVote ==
    \A ballots \in AllVotes : \A k \in DOMAIN ballots :
        \A v \in VoteKeyOf(k) : v[1] # v[3]

\* C2 witness: a collaborator whose own entry is listed in the team hub has
\* voted, and the vote is for somebody else.
C2_Witness ==
    \E s \in Sessions :
        /\ ShowsApp(s)
        /\ logged_in_user[s] \in ActiveUsers(s)
        /\ \E k \in DOMAIN votes[s] : \E v \in VoteKeyOf(k) : v[1] = logged_in_user[s]

\* ----------------------------------------------------------------------- C3

\* C3: a user whose password_set flag is false is never granted a session.
\* In every session, the logged-in user's password_set flag is true in the
\* session's users_db, and a pending password setup is bound to a user of
\* users_db while nobody is logged in.
C3_NoSessionBeforeSetup ==
    \A s \in Sessions :
        /\ logged_in_user[s] # None =>
                /\ logged_in_user[s] \in DOMAIN users_db[s]
                /\ users_db[s][logged_in_user[s]].password_set
        /\ force_password_reset_for_user[s] # None =>
                /\ logged_in_user[s] = None
                /\ user_role[s] = None
                /\ force_password_reset_for_user[s] \in DOMAIN users_db[s]

\* C3 witness: right credentials of a user with password_set false left the
\* session in the password setup, with nobody logged in.
C3_Witness ==
    \E s \in Sessions :
        /\ force_password_reset_for_user[s] # None
        /\ ~users_db[s][force_password_reset_for_user[s]].password_set
        /\ logged_in_user[s] = None

\* ----------------------------------------------------------------------- C4

\* C4 as stated (violated): every claim of a pool task makes the session's
\* pool one shorter and the claimant's current-week entry one task longer,
\* the new last task being the claimed one with status Pendiente.
C4_ClaimMovesOne ==
    [][\A s \in Sessions, i \in 1..MaxPublish :
            Claim(s, i) =>
                /\ Len(unassigned_tasks'[s]) = Len(unassigned_tasks[s]) - 1
                /\ unassigned_tasks[s][i].id \notin Ids(unassigned_tasks'[s])
                /\ Len(CurrentEntry(s).tasks') = Len(CurrentEntry(s).tasks) + 1
                /\ CurrentEntry(s).tasks'[Len(CurrentEntry(s).tasks')].status = TASK_STATUSES[1]
      ]_vars

\* ----------------------------------------------------------------------- C5

\* The claimant's entry of the current week as persisted.
PersistedEntryTasks(s) == Get(PersistedEntries, CurrentKey(s), EmptyEntry).tasks

\* C5 as stated (violated): a claim is one unit with respect to a failed
\* write.  A claim whose write of the weekly entries fails leaves the task in
\* the pool, in the session and on disk; and whenever a claim takes a task out
\* of the pool, the claimant's persisted entry holds that task.
C5_ClaimIsOneUnit ==
    [][\A s \in Sessions, i \in 1..MaxPublish :
            /\ (\E tr \in BOOLEAN : ClaimWeeklySaveFails(s, i, tr)) =>
                    /\ unassigned_tasks'[s] = unassigned_tasks[s]
                    /\ files'[UNASSIGNED_TASKS_FILE] = files[UNASSIGNED_TASKS_FILE]
            /\ Claim(s, i) =>
                    unassigned_tasks[s][i].id \in Ids(PersistedEntryTasks(s)')
      ]_vars

\* ----------------------------------------------------------------------- C6

\* C6 as stated (violated): a published task leaves the pool through at most
\* one successful operation.  No task was claimed by two collaborators, and
\* none was both claimed and retracted.
C6_LeavesPoolOnce ==
    \A t \in DOMAIN claimedBy :
        /\ Cardinality(claimedBy[t]) <= 1
        /\ t \notin retracted

\* ----------------------------------------------------------------------- C7

\* C7: at most one WeeklyEntry exists per (username, week).  Every key of a
\* weekly-entries collection stands for exactly one (username, week) pair,
\* and a step that changes a session's weekly entries changes only the
\* entry of the logged-in user and the current week.
C7_OneEntryPerUserWeek ==
    /\ [](\A entries \in AllEntries : \A k \in DOMAIN entries :
                Cardinality(EntryKeyOf(k)) = 1)
    /\ [][\A s \in Sessions :
            (initialized[s] /\ initialized'[s] /\ weekly_entries'[s] # weekly_entries[s]) =>
                /\ ShowsApp(s)
                /\ DOMAIN weekly_entries'[s] = DOMAIN weekly_entries[s] \cup {CurrentKey(s)}
                /\ \A k \in DOMAIN weekly_entries[s] \ {CurrentKey(s)} :
                        weekly_entries'[s][k] = weekly_entries[s][k]]_vars

\* C7 witness: one session holds entries of two users and of two weeks.
C7_Witness ==
    \E s \in Sessions : \E k1, k2, k3 \in DOMAIN weekly_entries[s] :
        \E u1, u2 \in Users, w1, w2 \in Weeks :
            /\ u1 # u2 /\ w1 # w2
            /\ k1 = EntryKey(u1, w1) /\ k2 = EntryKey(u2, w1) /\ k3 = EntryKey(u1, w2)

\* ----------------------------------------------------------------------- C8

\* C8: addTask with an empty title is rejected and changes nothing.  The
\* task sequence, the session's weekly entries and the files are the same
\* after it.
C8_EmptyTitleChangesNothing ==
    [][\A s \in Sessions, d \in DescInputs :
            AddTask(s, "", d) =>
                /\ CurrentEntry(s).tasks' = CurrentEntry(s).tasks
                /\ weekly_entries' = weekly_entries
                /\ files' = files
                /\ next_uuid' = next_uuid]_vars

\* C8 witness: an empty title was just rejected while the entry holds a task.
C8_Witness ==
    /\ lastOp.op = "add"
    /\ lastOp.b = FALSE
    /\ CurrentEntry(lastOp.s).tasks # <<>>
    /\ files[WEEKLY_ENTRIES_FILE] = Stored(weekly_entries[lastOp.s])

\* ----------------------------------------------------------------------- C9

\* The ids of the tasks in a weekly-entries collection that came from the pool
\* (a copy of a pool task keeps its added_by field).
PoolCopies(entries) ==
    {t \in UNION {Ids(entries[k].tasks) : k \in DOMAIN entries} :
        \E k \in DOMAIN entries : \E i \in 1..Len(entries[k].tasks) :
            entries[k].tasks[i].id = t /\ "added_by" \in DOMAIN entries[k].tasks[i]}

\* C9: only the admin role publishes to and retracts from the pool, and only
\* the collaborator role claims.  A step that adds a task to a session's pool
\* is taken by an admin session; a step that takes one out is taken by an
\* admin session, which copies nothing, or by a collaborator session, whose
\* current entry then holds the task; and a step that puts a pool task into
\* a session's weekly entries is taken by a collaborator session.
C9_PoolRoles ==
    [][\A s \in Sessions :
            (initialized[s] /\ initialized'[s]) =>
                LET added == Ids(unassigned_tasks'[s]) \ Ids(unassigned_tasks[s])
                    removed == Ids(unassigned_tasks[s]) \ Ids(unassigned_tasks'[s])
                    copied == PoolCopies(weekly_entries'[s]) \ PoolCopies(weekly_entries[s])
                IN  /\ added # {} => user_role[s] = "admin"
                    /\ removed # {} =>
                            \/ user_role[s] = "admin" /\ copied = {}
                            \/ /\ user_role[s] = "collaborator"
                               /\ removed \subseteq Ids(CurrentEntry(s).tasks')
                    /\ copied # {} => user_role[s] = "collaborator" /\ copied = removed
      ]_vars

\* C9 witness: an admin has published and retracted a task that a
\* collaborator's session has claimed.
C9_Witness ==
    \E t \in DOMAIN claimedBy :
        /\ t \in retracted
        /\ \E s \in Sessions : t \in PoolCopies(weekly_entries[s])

\* ---------------------------------------------------------------------- C10

\* C10 as stated (violated): voting is restricted to collaborators.  Every
\* key of a votes collection has a voter whose role is collaborator.
C10_OnlyCollaboratorsVote ==
    \A ballots \in AllVotes : \A k \in DOMAIN ballots :
        \A v \in VoteKeyOf(k) : DefaultUsers[v[1]].role = "collaborator"

\* ---------------------------------------------------------------------- C11

\* The persisted users collection.
PersistedUsers == load_data(USERS_FILE, <<>>)

\* What the setup form refuses: an empty field, two fields that differ, a
\* new password of fewer than 6 characters.
Refused(new_password, confirm_password) ==
    \/ new_password = "" \/ confirm_password = ""
    \/ new_password # confirm_password
    \/ Len(new_password) < 6

\* C11: completePasswordSetup fails when a field is empty, the fields differ
\* or the new password is shorter than 6 characters, and then the session's
\* users, the users file and the session state (still in the password setup,
\* nobody logged in) are unchanged; otherwise the user's hash is the new
\* password's, password_set is true in the session and on disk, and the
\* session is logged in as that user, the password setup over.
C11_SetupValidates ==
    [][\A s \in Sessions, p \in NewPasswordInputs, c \in NewPasswordInputs :
            SetupPassword(s, p, c) =>
                LET u == force_password_reset_for_user[s]
                IN  IF Refused(p, c)
                    THEN /\ users_db'[s] = users_db[s]
                         /\ files' = files
                         /\ force_password_reset_for_user'[s] = u
                         /\ logged_in_user'[s] = None
                         /\ user_role'[s] = None
                    ELSE /\ users_db'[s][u].password = hash_password(p)
                         /\ users_db'[s][u].password_set
                         /\ \A o \in DOMAIN users_db[s] \ {u} : users_db'[s][o] = users_db[s][o]
                         /\ files'[USERS_FILE] = Stored(users_db'[s])
                         /\ force_password_reset_for_user'[s] = None
                         /\ logged_in_user'[s] = u
                         /\ user_role'[s] = users_db[s][u].role]_vars

\* C11 witness: one user has completed the setup, and a session's setup
\* form has just refused what was typed.
C11_Witness ==
    /\ lastOp.op = "setup"
    /\ ShowsPasswordSetup(lastOp.s)
    /\ \E u \in DOMAIN PersistedUsers :
            /\ PersistedUsers[u].password_set
            /\ u # force_password_reset_for_user[lastOp.s]

\* ---------------------------------------------------------------------- C13

\* C13: from every logged-in state logout can be taken, and it leads to the
\* login page with logged_in_user, role, display name, the task in edit mode
\* and the pending-password-setup username all unset; the four collections
\* of every session and the four files are unchanged.
C13_LogoutClears ==
    /\ [](\A s \in Sessions : ShowsApp(s) => ENABLED Logout(s))
    /\ [][\A s \in Sessions :
            Logout(s) =>
                /\ ShowsLogin(s)'
                /\ logged_in_user'[s] = None
                /\ user_role'[s] = None
                /\ user_full_name'[s] = None
                /\ editing_task_id'[s] = NoId
                /\ force_password_reset_for_user'[s] = None
                /\ UNCHANGED <<users_db, weekly_entries, unassigned_tasks, votes, files>>]_vars

\* C13 witness: a user has just logged out while editing a task of a stored
\* entry.
C13_Witness ==
    /\ lastOp.op = "logout"
    /\ lastOp.b = TRUE
    /\ ShowsLogin(lastOp.s)
    /\ weekly_entries[lastOp.s] # <<>>

\* ---------------------------------------------------------------------- C14

\* C14: authenticate fails for a username that is not in the session's users
\* collection and for a password that is not the one the stored hash was
\* made from; the session then stays on the login page, with neither
\* logged_in_user nor the pending password setup set, and the users
\* collection, in the session and on disk, is unchanged.
C14_BadCredentialsRejected ==
    [][\A s \in Sessions, u \in UsernameInputs, p \in PasswordInputs :
            (/\ Login(s, u, p)
             /\ \/ u \notin DOMAIN users_db[s]
                \/ users_db[s][u].password # hash_password(p)) =>
                /\ ShowsLogin(s)'
                /\ logged_in_user'[s] = None
                /\ user_role'[s] = None
                /\ force_password_reset_for_user'[s] = None
                /\ UNCHANGED <<users_db, files>>]_vars

\* C14 witness: a login was just refused in a session whose users collection
\* holds a user who has chosen a password.
C14_Witness ==
    /\ lastOp.op = "login"
    /\ ShowsLogin(lastOp.s)
    /\ \E u \in DOMAIN users_db[lastOp.s] : users_db[lastOp.s][u].password_set

\* ---------------------------------------------------------------------- C12

\* C12 as stated (violated): a write of a collection is all-or-nothing.
\* After every step each file holds what it held before the step or a
\* complete document; none is left truncated, so no later load falls back
\* to the empty default because of an interrupted save.
C12_WriteAllOrNothing ==
    [][\A f \in FileNames :
            \/ files'[f] = files[f]
            \/ files'[f].st = "ok"]_vars

\* ---------------------------------------------------------------------- C17

\* C17 as stated (violated): password setup is one-time per user.  Once the
\* persisted password_set flag of u is true it stays true, no login run of
\* any session starts a password setup for u, and no login of u with the
\* default initial password changes a session.
C17_SetupOnce ==
    [][\A u \in Users :
            (u \in DOMAIN PersistedUsers /\ PersistedUsers[u].password_set) =>
                /\ u \in DOMAIN PersistedUsers'
                /\ PersistedUsers'[u].password_set
                /\ \A s \in Sessions :
                        /\ force_password_reset_for_user'[s] = u =>
                                force_password_reset_for_user[s] = u
                        /\ Login(s, u, DEFAULT_INITIAL_PASSWORD) => UNCHANGED auth_vars]_vars

\* ---------------------------------------------------------------------- C15

\* C15: every score stored in a votes collection, of a session or on disk,
\* is an integer from 1 to 5.
C15_ScoreInRange ==
    \A ballots \in AllVotes : \A k \in DOMAIN ballots : ballots[k] \in 1..5

\* C15 witness: the votes file holds a vote of the lowest score and a vote
\* of the highest.
C15_Witness ==
    /\ \E k \in DOMAIN PersistedVotes : PersistedVotes[k] = 1
    /\ \E k \in DOMAIN PersistedVotes : PersistedVotes[k] = 5

\* ---------------------------------------------------------------------- C20

\* C20: only collaborators are voteable.  Every key of a votes collection,
\* of a session or on disk, has a target whose role is collaborator; no vote
\* for the admin is recorded.
C20_OnlyCollaboratorsVoteable ==
    \A ballots \in AllVotes : \A k \in DOMAIN ballots :
        \A v \in VoteKeyOf(k) : DefaultUsers[v[3]].role = "collaborator"

\* C20 witness: a collaborator has voted in a session in which the admin
\* has a plan with tasks in the current week.
C20_Witness ==
    \E s \in Sessions :
        /\ ShowsApp(s)
        /\ user_role[s] = "collaborator"
        /\ Get(weekly_entries[s], EntryKey("admin", get_current_week_year), EmptyEntry).tasks # <<>>
        /\ \E k \in DOMAIN votes[s] : \E v \in VoteKeyOf(k) : v[1] = logged_in_user[s]

\* ---------------------------------------------------------------------- C16

\* An operation of session s on a weekly entry: add, edit, delete, status
\* change, set hours, claim.
EntryOperation(s) ==
    \/ \E t \in TitleInputs, d \in DescInputs : AddTask(s, t, d) \/ SaveEdit(s, t, d)
    \/ \E i \in 1..MaxTasks : DeleteTask(s, i)
    \/ \E i \in 1..MaxTasks, st \in {TASK_STATUSES[j] : j \in 1..Len(TASK_STATUSES)} :
            SetStatus(s, i, st)
    \/ \E h \in HoursInputs : SavePlan(s, h)
    \/ \E i \in 1..MaxPublish : Claim(s, i)

\* C16 as stated (violated): a WeeklyEntry is changed only by its owner and
\* never deleted.  An operation of a session leaves every persisted entry but
\* the one of its user and the current week in the weekly-entries file,
\* unchanged.
C16_OthersEntriesUntouched ==
    [][\A s \in Sessions :
            EntryOperation(s) =>
                \A k \in DOMAIN PersistedEntries \ {CurrentKey(s)} :
                    /\ k \in DOMAIN PersistedEntries'
                    /\ PersistedEntries'[k] = PersistedEntries[k]]_vars

\* ---------------------------------------------------------------------- C18

\* The persisted pool.
PersistedPool == load_data(UNASSIGNED_TASKS_FILE, <<>>)

\* The tasks that a claim or a retraction has taken out of the pool.
Removed == {t \in DOMAIN claimedBy : claimedBy[t] # {}} \cup retracted

\* C18 as stated (violated): a task removed from the pool by a claim or a
\* retraction never reappears in the persisted pool.  No step writes a pool
\* holding the id of a removed task that the persisted pool does not hold.
C18_RemovedStaysRemoved ==
    [][\A t \in Removed :
            t \notin Ids(PersistedPool) => t \notin Ids(PersistedPool')]_vars

\* ---------------------------------------------------------------------- C19

\* A sequence of tasks holds no id twice.
UniqueIds(tasks) == \A i, j \in 1..Len(tasks) : tasks[i].id = tasks[j].id => i = j

\* Every pool: each session's and the persisted one.
AllPools == {unassigned_tasks[s] : s \in Sessions} \cup {PersistedPool}

\* C19: task ids are unique within their owning collection.  No weekly
\* entry, of a session or on disk, holds two tasks with one id, and no pool,
\* of a session or on disk, holds two tasks with one id.
C19_IdsUnique ==
    /\ \A entries \in AllEntries : \A k \in DOMAIN entries : UniqueIds(entries[k].tasks)
    /\ \A pool \in AllPools : UniqueIds(pool)

\* C19 witness: a collaborator has just claimed a task whose id their entry
\* already held, and the entry holds another task besides.
C19_Witness ==
    /\ lastOp.op = "claim"
    /\ lastOp.b = TRUE
    /\ lastOp.a \in Ids(CurrentEntry(lastOp.s).tasks)
    /\ Len(CurrentEntry(lastOp.s).tasks) >= 2

\* ---------------------------------------------------------------------- C21

\* The step leaves every entry of the session other than the current one as
\* it was, adds no key but the current one, and the weekly-entries file holds
\* the session's whole collection afterwards.
OnlyCurrentEntryStored(s) ==
    /\ DOMAIN weekly_entries'[s] = DOMAIN weekly_entries[s] \cup {CurrentKey(s)}
    /\ \A k \in DOMAIN weekly_entries[s] \ {CurrentKey(s)} :
            weekly_entries'[s][k] = weekly_entries[s][k]
    /\ files'[WEEKLY_ENTRIES_FILE] = Stored(weekly_entries'[s])
    /\ \A f \in DOMAIN files \ {WEEKLY_ENTRIES_FILE} : files'[f] = files[f]

\* C21: an addTask with a non-empty title appends exactly one task at the end
\* of the caller's current-week tasks (the entry is created with hours 0 when
\* it was absent): the new task has the first status (Pending), the title and
\* description typed and an id that no task of the entry had; the tasks that
\* were there keep their contents and order, the hours are unchanged, and the
\* weekly-entries file holds the result when the step is over.
C21_AddAppendsOne ==
    [][\A s \in OneSession, t \in TitleInputs, d \in DescInputs :
            (AddTask(s, t, d) /\ t # "") =>
                LET was == CurrentEntry(s)
                    now == weekly_entries'[s][CurrentKey(s)]
                    added == now.tasks[Len(now.tasks)]
                IN  /\ OnlyCurrentEntryStored(s)
                    /\ now.hours = was.hours
                    /\ Len(now.tasks) = Len(was.tasks) + 1
                    /\ now.tasks = Append(was.tasks, added)
                    /\ added.status = TASK_STATUSES[1]
                    /\ added.title = t /\ added.desc = d
                    /\ added.id \notin Ids(was.tasks)]_vars

\* A task was added behind one that was there before (its status was already
\* changed), in an entry whose hours were saved, and the file holds it.
C21_Witness ==
    \E s \in OneSession :
        /\ ShowsApp(s)
        /\ lastOp = Quiet
        /\ Len(CurrentEntry(s).tasks) = 2
        /\ CurrentEntry(s).hours = 8
        /\ CurrentEntry(s).tasks[1].status = TASK_STATUSES[4]
        /\ CurrentEntry(s).tasks[2].status = TASK_STATUSES[1]
        /\ CurrentEntry(s).tasks[2].id = next_uuid - 1
        /\ CurrentEntry(s).tasks[1].id < CurrentEntry(s).tasks[2].id
        /\ files[WEEKLY_ENTRIES_FILE] = Stored(weekly_entries[s])

\* ---------------------------------------------------------------------- C22

\* C22: a saved edit changes only the title and the description of the task in
\* edit mode: its id, status and position, the number of tasks, every other
\* task, the hours and every other entry are unchanged, and the file holds the
\* result; an edit submitted with an empty title changes nothing in the
\* session's collections or in the files.
C22_EditChangesTextOnly ==
    [][\A s \in OneSession, t \in EditTitleInputs, d \in EditDescInputs :
            SaveEdit(s, t, d) =>
                LET was == CurrentEntry(s)
                    i == EditIndex(s)
                IN  /\ UNCHANGED <<users_db, unassigned_tasks, votes>>
                    /\ IF t # ""
                       THEN LET now == weekly_entries'[s][CurrentKey(s)]
                            IN  /\ OnlyCurrentEntryStored(s)
                                /\ now.hours = was.hours
                                /\ Len(now.tasks) = Len(was.tasks)
                                /\ now.tasks[i] = [was.tasks[i] EXCEPT !.title = t, !.desc = d]
                                /\ now.tasks[i].id = was.tasks[i].id
                                /\ now.tasks[i].status = was.tasks[i].status
                                /\ \A j \in 1..Len(was.tasks) \ {i} : now.tasks[j] = was.tasks[j]
                       ELSE UNCHANGED <<weekly_entries, files>>]_vars

\* The first of two tasks carries the edited text and the status it was given
\* before the edit; the task behind it is as it was added.
C22_Witness ==
    \E s \in OneSession :
        /\ ShowsApp(s)
        /\ editing_task_id[s] = NoId
        /\ Len(CurrentEntry(s).tasks) = 2
        /\ CurrentEntry(s).tasks[1] = [id |-> 1, title |-> "Fix crash", desc |-> "soon",
                                       status |-> TASK_STATUSES[4]]
        /\ CurrentEntry(s).tasks[2].title = "Fix leak"
        /\ files[WEEKLY_ENTRIES_FILE] = Stored(weekly_entries[s])

\* ---------------------------------------------------------------------- C23

\* C23: deleteTask removes exactly the task clicked from the caller's
\* current-week entry: the entry has one task less, the tasks before it and
\* behind it keep their contents and order, the hours and the other entries
\* are unchanged, and the file holds the result.
C23_DeleteRemovesOne ==
    [][\A s \in OneSession, i \in 1..MaxTasks :
            DeleteTask(s, i) =>
                LET was == CurrentEntry(s)
                    now == weekly_entries'[s][CurrentKey(s)]
                IN  /\ OnlyCurrentEntryStored(s)
                    /\ now.hours = was.hours
                    /\ Len(now.tasks) = Len(was.tasks) - 1
                    /\ \A j \in 1..(i - 1) : now.tasks[j] = was.tasks[j]
                    /\ \A j \in i..Len(now.tasks) : now.tasks[j] = was.tasks[j + 1]
                    /\ Ids(now.tasks) = Ids(was.tasks) \ {was.tasks[i].id}]_vars

\* The first task of an entry was deleted: the task added after it is the
\* entry's only task, with the status it was given, and the hours are kept.
C23_Witness ==
    \E s \in OneSession :
        /\ ShowsApp(s)
        /\ next_uuid = 3
        /\ CurrentEntry(s).hours = 8
        /\ Len(CurrentEntry(s).tasks) = 1
        /\ CurrentEntry(s).tasks[1].id = 2
        /\ CurrentEntry(s).tasks[1].status = TASK_STATUSES[4]
        /\ \A k \in DOMAIN weekly_entries[s] : 1 \notin Ids(weekly_entries[s][k].tasks)
        /\ files[WEEKLY_ENTRIES_FILE] = Stored(weekly_entries[s])

\* ---------------------------------------------------------------------- C24

\* The ids of the tasks of every entry of the session, in their order.
TaskIds(entries) ==
    [k \in DOMAIN entries |-> [j \in 1..Len(entries[k].tasks) |-> entries[k].tasks[j].id]]

C25_SameIdIffSameIsoWeek ==
    \A i \in 1..Len(Instants) :
        (WeekOfInstant[i] = get_current_week_year)
            <=> /\ IsoYear(Instants[i]) = IsoYear(Instants[clock])
                /\ IsoWeek(Instants[i]) = IsoWeek(Instants[clock])

\* ---------------------------------------------------------------------- C26

LoggedOut(s) == force_password_reset_for_user[s] = None /\ logged_in_user[s] = None
PendingPasswordSetup(s) == force_password_reset_for_user[s] # None /\ logged_in_user[s] = None
LoggedIn(s) ==
    /\ force_password_reset_for_user[s] = None
    /\ logged_in_user[s] \in DOMAIN users_db[s]
    /\ user_role[s] = users_db[s][logged_in_user[s]].role
    /\ user_full_name[s] = users_db[s][logged_in_user[s]].full_name

\* C26: a session never has both force_password_reset_for_user and
\* logged_in_user set: it is logged out (both unset), pending password setup
\* (only the pending username set) or logged in (only logged_in_user set, with
\* the role and the display name of that user's record); and a session leaves
\* the pending password setup only by a setup that passed the checks: the
\* pending user is then logged in and the record says the password is set.
C26_OneAuthState ==
    /\ [](\A s \in Sessions :
            initialized[s] => LoggedOut(s) \/ PendingPasswordSetup(s) \/ LoggedIn(s))
    /\ [][\A s \in Sessions :
            (initialized[s] /\ initialized'[s] /\ PendingPasswordSetup(s)
                /\ force_password_reset_for_user'[s] # force_password_reset_for_user[s]) =>
                    /\ \E p \in NewPasswordInputs : SetupPassword(s, p, p) /\ ~Refused(p, p)
                    /\ logged_in_user'[s] = force_password_reset_for_user[s]
                    /\ force_password_reset_for_user'[s] = None
                    /\ users_db'[s][logged_in_user'[s]].password_set
                    /\ LoggedIn(s)']_vars

\* One session is logged in by a completed setup while the other is pending
\* the setup of another user.
C26_Witness ==
    \E s, o \in Sessions :
        /\ initialized[s] /\ initialized[o]
        /\ LoggedIn(s) /\ logged_in_user[s] # None
        /\ users_db[s][logged_in_user[s]].password = hash_password("secret1")
        /\ PendingPasswordSetup(o)
        /\ force_password_reset_for_user[o] # logged_in_user[s]

====
